---- MODULE Spec2Model ----
(***************************************************************************)
(* Model of spool/spoolex.py (BlockchainSpider): the history tree builder, *)
(* the output scanner (check_script), the address resolver                 *)
(* (_get_addresses), the chain extractor (chain) and strip_loan.           *)
(*                                                                         *)
(* Two specifications share the module:                                    *)
(*   Spec       one history(hash) call, one loop iteration per step;       *)
(*   SpecChain  chain(tree, e) followed by strip_loan calls, over a heap   *)
(*              of list objects so that aliasing between the tree's        *)
(*              buckets and the derived chain is observable.               *)
(*                                                                         *)
(* Script bytes are modelled as sequences of byte tokens: an OP_RETURN     *)
(* script is <<"6a", length>> followed by the payload tokens, so that      *)
(* startswith('6a') and the [4:] slice (two bytes = four hex digits) are   *)
(* computed on the script and not assumed.                                 *)
(***************************************************************************)
EXTENDS Integers, Sequences, FiniteSets, TLC

VARIABLES
    \* ---- history(hash) ----
    pc,               \* "idle" | "loop" | "returned" | "raised"
    feedLen,          \* len(txs): number of candidates returned for the hash
    fetched,          \* transaction details fetched so far (self._t.get(txid))
    tree,             \* local defaultdict(list): edition_number -> list of events
    number_editions,  \* local number_editions
    err,              \* the exception that left history(), or NoErr
    result,           \* the value history() returned, or NoTree
    \* ---- chain / strip_loan ----
    cpc,              \* "idle" | "tree" | "chained" | "stripped" | "stripped2" | "raised"
    heap,             \* list objects: reference -> contents
    ctree,            \* the tree passed to chain(): edition_number -> reference
    cedition,         \* the edition_number passed to chain()
    cref,             \* reference of the list chain() returned
    carg,             \* contents of the chain when strip_loan was first called
    ret1,             \* contents returned by the first strip_loan call
    ret2,             \* contents returned by the second strip_loan call
    cerr              \* the exception strip_loan raised, or NoErr

hvars == <<pc, feedLen, fetched, tree, number_editions, err, result>>
cvars == <<cpc, heap, ctree, cedition, cref, carg, ret1, ret2, cerr>>
vars == <<pc, feedLen, fetched, tree, number_editions, err, result,
          cpc, heap, ctree, cedition, cref, carg, ret1, ret2, cerr>>

----------------------------------------------------------------------------
(* Bounds of the model *)

MaxTxs == 2
MaxEdition == 1
MaxNumEditions == 2
MaxTime == 2
MaxChainLen == 3

NoErr == [type |-> "none"]
NoTree == "NoTree"
NoTxid == <<>>

----------------------------------------------------------------------------
(* Generic helpers *)

Last(s) == s[Len(s)]

Front(s) == SubSeq(s, 1, Len(s) - 1)

Range(s) == {s[i] : i \in DOMAIN s}

\* Python's sorted(): a stable sort. ps is a sequence of <<key, item>> pairs.
RECURSIVE sorted_pairs(_)
sorted_pairs(ps) ==
    IF ps = <<>> THEN <<>>
    ELSE LET rest == sorted_pairs(Front(ps))
             x == Last(ps)
             k == Cardinality({i \in DOMAIN rest : rest[i][1] <= x[1]})
         IN SubSeq(rest, 1, k) \o <<x>> \o SubSeq(rest, k + 1, Len(rest))

----------------------------------------------------------------------------
(* Verb Interpreter: spool/spoolverb.py                                    *)
(* A verb string is modelled as <<meta, version, action, argument>>.       *)

supported_actions ==
    {"REGISTER", "CONSIGN", "TRANSFER", "LOAN", "UNCONSIGN", "FUEL", "EDITIONS"}

from_verb(verb) ==
    IF Len(verb) = 4 /\ verb[1] = "ASCRIBESPOOL"
    THEN [ok |-> TRUE,
          action |-> verb[3],
          edition_number |-> IF verb[3] = "EDITIONS" THEN 0 ELSE verb[4],
          num_editions |-> IF verb[3] = "EDITIONS" THEN verb[4] ELSE 0]
    ELSE [ok |-> FALSE, action |-> "", edition_number |-> 0, num_editions |-> 0]

----------------------------------------------------------------------------
(* Output Scanner *)

decode_op_return(op_return_hex) ==
    SubSeq(op_return_hex, 3, Len(op_return_hex))

IsOpReturn(hex) == Len(hex) >= 1 /\ hex[1] = "6a"

\* Bug variant: the first data output from the end is returned without the
\* supported-action test.
RECURSIVE check_script_unchecked_from(_, _)
check_script_unchecked_from(vouts, k) ==
    IF k = 0 THEN [status |-> "Exception", verb |-> <<>>, pos |-> 0]
    ELSE IF ~IsOpReturn(vouts[k].hex) THEN check_script_unchecked_from(vouts, k - 1)
    ELSE LET verb == decode_op_return(vouts[k].hex)
         IN IF ~from_verb(verb).ok
            THEN [status |-> "decode_error", verb |-> <<>>, pos |-> 0]
            ELSE [status |-> "ok", verb |-> verb, pos |-> k]

check_script_unchecked(vouts) == check_script_unchecked_from(vouts, Len(vouts))

\* The loop of check_script over the data outputs of vouts[::-1], from list
\* position k downwards. pos is the list position of the output returned.
RECURSIVE check_script_from(_, _)
check_script_from(vouts, k) ==
    IF k = 0 THEN [status |-> "Exception", verb |-> <<>>, pos |-> 0]
    ELSE IF ~IsOpReturn(vouts[k].hex) THEN check_script_from(vouts, k - 1)
    ELSE LET verb == decode_op_return(vouts[k].hex)
             v == from_verb(verb)
         IN IF ~v.ok
            THEN [status |-> "decode_error", verb |-> <<>>, pos |-> 0]
            ELSE IF v.action \in supported_actions
            THEN [status |-> "ok", verb |-> verb, pos |-> k]
            ELSE check_script_from(vouts, k - 1)

check_script(vouts) == check_script_from(vouts, Len(vouts))

----------------------------------------------------------------------------
(* Address Resolver *)

\* sorted(tx['vouts'], key=lambda d: d['n'])
sorted_vouts(vouts) ==
    LET ps == sorted_pairs([i \in DOMAIN vouts |-> <<vouts[i].n, vouts[i]>>])
    IN [i \in DOMAIN ps |-> ps[i][2]]

\* sorted(...)[:-1]; Python's slice of an empty list is the empty list.
kept_vouts(tx) ==
    LET s == sorted_vouts(tx.vouts)
    IN IF s = <<>> THEN <<>> ELSE Front(s)

NoAddresses(status) ==
    [status |-> status, from_address |-> "", to_address |-> "", piece_address |-> ""]

\* Bug variant: the single-sender test is missing, the first input's address
\* is taken as the sender.
get_addresses_any_sender(tx) ==
    LET vouts == kept_vouts(tx)
    IN IF tx.vins = <<>> THEN NoAddresses("InvalidTransactionError")
       ELSE IF vouts = <<>> THEN NoAddresses("IndexError")
       ELSE [status |-> "ok",
             from_address |-> tx.vins[1].address,
             to_address |-> Last(vouts).address,
             piece_address |-> vouts[1].address]

get_addresses(tx) ==
    LET from_address == {tx.vins[i].address : i \in DOMAIN tx.vins}
        vouts == kept_vouts(tx)
    IN IF Cardinality(from_address) # 1 THEN NoAddresses("InvalidTransactionError")
       ELSE IF vouts = <<>> THEN NoAddresses("IndexError")
       ELSE [status |-> "ok",
             from_address |-> CHOOSE a \in from_address : TRUE,
             to_address |-> Last(vouts).address,
             piece_address |-> vouts[1].address]

----------------------------------------------------------------------------
(* History Tree Builder *)

\* tree[k].append(ev) on a defaultdict(list)
tree_append(t, k, ev) ==
    IF k \in DOMAIN t THEN [t EXCEPT ![k] = Append(@, ev)]
    ELSE t @@ (k :> <<ev>>)

\* Bug variant: every event is filed under the piece-level bucket.
edition_number_zero(verb) == 0

\* edition_number = 0; if action != 'EDITIONS': edition_number = verb.edition_number
edition_number_of(verb) ==
    IF verb.action # "EDITIONS" THEN verb.edition_number ELSE 0

\* The exception objects the code constructs carry a message only; txid is
\* the transaction id the exception references (none is attached).
Raise(type) == [type |-> type, txid |-> NoTxid]

\* One iteration of the loop of history(): the state after the iteration,
\* err # NoErr when the iteration raised.
history_step(t, ne, _tx) ==
    LET scan == check_script(_tx.vouts)
        verb == from_verb(scan.verb)
        addrs == get_addresses(_tx)
        edition_number == edition_number_of(verb)
        ne2 == IF verb.action # "EDITIONS" THEN ne ELSE verb.num_editions
    IN IF scan.status # "ok"
       THEN [tree |-> t, number_editions |-> ne, err |-> Raise(scan.status)]
       ELSE IF addrs.status # "ok"
       THEN [tree |-> t, number_editions |-> ne, err |-> Raise(addrs.status)]
       ELSE [tree |-> tree_append(t, edition_number,
                         [txid |-> _tx.txid,
                          verb |-> scan.verb,
                          from_address |-> addrs.from_address,
                          to_address |-> addrs.to_address,
                          piece_address |-> addrs.piece_address,
                          timestamp_utc |-> _tx.time,
                          action |-> verb.action,
                          number_editions |-> ne2,
                          edition_number |-> edition_number]),
             number_editions |-> ne2,
             err |-> NoErr]

\* Bug variant: the back-fill pass is missing.
backfill_none(t, ne) == t

\* for edition, chain in tree.items(): d.update({'number_editions': number_editions})
backfill(t, ne) ==
    [k \in DOMAIN t |->
        [i \in DOMAIN t[k] |-> [t[k][i] EXCEPT !.number_editions = ne]]]

----------------------------------------------------------------------------
(* Inputs of history(): the transaction details the Transaction Source can *)
(* return for a candidate.                                                 *)

\* The id of the i-th candidate of the feed.
TxId(i) == <<"tx", i>>

VerbString(action, arg) == <<"ASCRIBESPOOL", "01", action, arg>>

OpReturn(payload) == <<"6a", Len(payload)>> \o payload

PayScript == <<"76", "a9", "14">>

AddrOut(n, a) == [n |-> n, address |-> a, hex |-> PayScript]

\* A data-carrying output has no custody address; its address field holds a
\* placeholder, as the transaction source reports one for every output.
DataOut(n, payload) == [n |-> n, address |-> "nulldata", hex |-> OpReturn(payload)]

UnsupportedVerb == VerbString("MIGRATE", 1)

BadPayload == <<"junk">>

\* Output lists: the protocol's layout and departures from it.
Layouts(v) ==
    { <<AddrOut(0, "piece"), AddrOut(1, "to"), DataOut(2, v)>>,
      <<AddrOut(0, "piece"), DataOut(1, v)>>,
      <<DataOut(0, v), AddrOut(1, "piece"), AddrOut(2, "to")>>,
      <<AddrOut(0, "piece"), DataOut(1, v), AddrOut(2, "to")>>,
      <<DataOut(2, v), AddrOut(1, "to"), AddrOut(0, "piece")>>,
      <<AddrOut(0, "piece"), DataOut(1, v), DataOut(2, UnsupportedVerb)>>,
      <<AddrOut(0, "piece"), DataOut(1, v), DataOut(2, BadPayload)>>,
      <<AddrOut(0, "piece"), AddrOut(1, "to"), DataOut(2, UnsupportedVerb)>>,
      <<AddrOut(0, "piece"), AddrOut(1, "to"), DataOut(2, BadPayload)>>,
      <<AddrOut(0, "piece"), AddrOut(1, "to")>>,
      <<DataOut(0, v)>>,
      <<>> }

StandardLayout(v) == <<AddrOut(0, "piece"), AddrOut(1, "to"), DataOut(2, v)>>

Vin(a) == [address |-> a]

VinsChoices ==
    { <<Vin("s1")>>, <<Vin("s1"), Vin("s1")>>, <<Vin("s1"), Vin("s2")>>, <<>> }

FeedVerbs ==
    {VerbString(a, e) : a \in {"REGISTER", "LOAN"}, e \in 0..MaxEdition}
    \cup {VerbString("EDITIONS", n) : n \in 1..MaxNumEditions}

\* Protocol-shaped transactions with every verb and time, and every output
\* layout and input list with one verb.
TxDetails(txid) ==
    { [txid |-> txid, time |-> t, vins |-> <<Vin("s1")>>, vouts |-> StandardLayout(v)] :
          t \in 1..MaxTime, v \in FeedVerbs }
    \cup
    { [txid |-> txid, time |-> 1, vins |-> vins, vouts |-> vouts] :
          vins \in VinsChoices, vouts \in Layouts(VerbString("REGISTER", 1)) }

----------------------------------------------------------------------------
(* history(hash) *)

ChainIdle ==
    /\ cpc = "idle" /\ heap = <<>> /\ ctree = <<>> /\ cedition = 0 /\ cref = 0
    /\ carg = <<>> /\ ret1 = <<>> /\ ret2 = <<>> /\ cerr = NoErr

Init ==
    /\ pc = "loop"
    /\ feedLen \in 0..MaxTxs
    /\ fetched = <<>>
    /\ tree = <<>>
    /\ number_editions = 0
    /\ err = NoErr
    /\ result = NoTree
    /\ ChainIdle

\* for tx in txs: one iteration
HistoryIter ==
    /\ pc = "loop"
    /\ Len(fetched) < feedLen
    /\ \E _tx \in TxDetails(TxId(Len(fetched) + 1)) :
         LET step == history_step(tree, number_editions, _tx)
         IN /\ fetched' = Append(fetched, _tx)
            /\ tree' = step.tree
            /\ number_editions' = step.number_editions
            /\ err' = step.err
            /\ pc' = IF step.err = NoErr THEN "loop" ELSE "raised"
    /\ UNCHANGED <<feedLen, result>>
    /\ UNCHANGED cvars

\* the back-fill pass and return dict(tree)
HistoryReturn ==
    /\ pc = "loop"
    /\ Len(fetched) = feedLen
    /\ tree' = backfill(tree, number_editions)
    /\ result' = tree'
    /\ pc' = "returned"
    /\ UNCHANGED <<feedLen, fetched, number_editions, err>>
    /\ UNCHANGED cvars

Next == HistoryIter \/ HistoryReturn

Spec == Init /\ [][Next]_vars

----------------------------------------------------------------------------
(* Chain Extractor                                                         *)
(* Lists are objects on a heap: the tree maps an edition number to the     *)
(* reference of its bucket, chain() returns the reference of a list, and   *)
(* strip_loan pops from the list it is given.  Events are never written by *)
(* these operations, so they are modelled as values.                       *)

Bucket(h, t, e) == IF e \in DOMAIN t THEN h[t[e]] ELSE <<>>

sorted_by_timestamp(s) ==
    LET ps == sorted_pairs([i \in DOMAIN s |-> <<s[i].timestamp_utc, s[i]>>])
    IN [i \in DOMAIN ps |-> ps[i][2]]

\* Bug variant: the bucket is copied but not sorted.
chain_unsorted(h, t, edition_number) ==
    [heap |-> Append(h, Bucket(h, t, edition_number)), ref |-> Len(h) + 1]

\* Bug variant: the bucket itself is sorted in place and returned.
chain_in_place(h, t, edition_number) ==
    IF edition_number \in DOMAIN t
    THEN [heap |-> [h EXCEPT ![t[edition_number]] = sorted_by_timestamp(@)],
          ref |-> t[edition_number]]
    ELSE [heap |-> Append(h, <<>>), ref |-> Len(h) + 1]

\* sorted(tree.get(edition_number, []), key=...): a new list object
chain(h, t, edition_number) ==
    [heap |-> Append(h, sorted_by_timestamp(Bucket(h, t, edition_number))),
     ref |-> Len(h) + 1]

\* Bug variant: every LOAN event is removed, not only the trailing ones.
strip_loan_every(c) ==
    [status |-> "ok", chain |-> SelectSeq(c, LAMBDA d : d.action # "LOAN")]

\* while chain[-1]['action'] == 'LOAN': chain.pop()
\* chain is the list's contents when the call ends; chain[-1] of an empty
\* list raises IndexError.
RECURSIVE strip_loan(_)
strip_loan(c) ==
    IF c = <<>> THEN [status |-> "IndexError", chain |-> c]
    ELSE IF Last(c).action = "LOAN" THEN strip_loan(Front(c))
    ELSE [status |-> "ok", chain |-> c]

----------------------------------------------------------------------------
(* Inputs of chain(): trees with one bucket of any shape *)

ChainActions == {"TRANSFER", "LOAN"}

EventKinds == [action : ChainActions, timestamp_utc : 1..MaxTime]

KindLists == UNION {[1..l -> EventKinds] : l \in 0..MaxChainLen}

SimpleKindLists ==
    { <<[action |-> "LOAN", timestamp_utc |-> 1]>>,
      <<[action |-> "TRANSFER", timestamp_utc |-> 2],
        [action |-> "LOAN", timestamp_utc |-> 1]>> }

\* A bucket that may be missing: the empty set, or the set of its one list.
Absent == {}

Option(lists) == {Absent} \cup {{l} : l \in lists}

TheList(o) == CHOOSE l \in o : TRUE

MkBucket(k, kinds) ==
    [i \in DOMAIN kinds |->
        [txid |-> <<"tx", k, i>>,
         action |-> kinds[i].action,
         timestamp_utc |-> kinds[i].timestamp_utc,
         edition_number |-> k]]

Editions == 0..MaxEdition

\* The tree and heap holding the buckets b[k] # Absent, one list object each.
TreeOf(b) ==
    LET keys == {k \in DOMAIN b : b[k] # Absent}
        ref(k) == Cardinality({j \in keys : j <= k})
    IN [heap |-> [r \in 1..Cardinality(keys) |->
                      LET k == CHOOSE j \in keys : ref(j) = r
                      IN MkBucket(k, TheList(b[k]))],
        tree |-> [k \in keys |-> ref(k)]]

InitChain ==
    /\ pc = "idle" /\ feedLen = 0 /\ fetched = <<>> /\ tree = <<>>
    /\ number_editions = 0 /\ err = NoErr /\ result = NoTree
    /\ \E rich \in Editions :
       \E c \in Option(KindLists \cup SimpleKindLists) :
       \E others \in [Editions \ {rich} -> Option(SimpleKindLists)] :
          LET b == [k \in Editions |-> IF k = rich THEN c ELSE others[k]]
          IN /\ heap = TreeOf(b).heap
             /\ ctree = TreeOf(b).tree
    /\ cpc = "tree" /\ cedition = 0 /\ cref = 0
    /\ carg = <<>> /\ ret1 = <<>> /\ ret2 = <<>> /\ cerr = NoErr

\* c = chain(tree, e)
CallChain(e) ==
    /\ cpc = "tree"
    /\ LET r == chain(heap, ctree, e)
       IN heap' = r.heap /\ cref' = r.ref
    /\ cedition' = e
    /\ cpc' = "chained"
    /\ UNCHANGED <<ctree, carg, ret1, ret2, cerr>>
    /\ UNCHANGED hvars

\* strip_loan(c): pops from the list object c and returns that object
CallStripLoan ==
    /\ cpc = "chained"
    /\ LET r == strip_loan(heap[cref])
       IN /\ heap' = [heap EXCEPT ![cref] = r.chain]
          /\ carg' = heap[cref]
          /\ ret1' = IF r.status = "ok" THEN r.chain ELSE <<>>
          /\ cerr' = IF r.status = "ok" THEN NoErr ELSE [type |-> r.status]
          /\ cpc' = IF r.status = "ok" THEN "stripped" ELSE "raised"
    /\ UNCHANGED <<ctree, cedition, cref, ret2>>
    /\ UNCHANGED hvars

\* strip_loan(strip_loan(c)): the second call, on the object the first returned
CallStripLoanAgain ==
    /\ cpc = "stripped"
    /\ LET r == strip_loan(heap[cref])
       IN /\ heap' = [heap EXCEPT ![cref] = r.chain]
          /\ ret2' = IF r.status = "ok" THEN r.chain ELSE <<>>
          /\ cerr' = IF r.status = "ok" THEN NoErr ELSE [type |-> r.status]
          /\ cpc' = IF r.status = "ok" THEN "stripped2" ELSE "raised"
    /\ UNCHANGED <<ctree, cedition, cref, carg, ret1>>
    /\ UNCHANGED hvars

NextChain ==
    \/ \E e \in 0..(MaxEdition + 1) : CallChain(e)
    \/ CallStripLoan
    \/ CallStripLoanAgain

SpecChain == InitChain /\ [][NextChain]_vars

----------------------------------------------------------------------------
(* Properties of history(hash), checked under Spec *)

Places(t) == UNION {{<<k, i>> : i \in DOMAIN t[k]} : k \in DOMAIN t}

\* The verb of the payload the Output Scanner returns for a transaction.
VerbOf(tx) == from_verb(check_script(tx.vouts).verb)

EditionsTxs == {i \in DOMAIN fetched : VerbOf(fetched[i]).action = "EDITIONS"}

\* C1: when history() returns a tree, every event of every bucket carries the
\* same number_editions: the num_editions of the EDITIONS transaction when the
\* fetched set holds exactly one, and 0 when it holds none, wherever the
\* EDITIONS transaction stands in the feed.
C1_BackfillUniform ==
    pc = "returned" =>
        /\ EditionsTxs = {} =>
              \A p \in Places(result) : result[p[1]][p[2]].number_editions = 0
        /\ Cardinality(EditionsTxs) = 1 =>
              \A p \in Places(result) :
                  result[p[1]][p[2]].number_editions
                      = VerbOf(fetched[CHOOSE i \in EditionsTxs : TRUE]).num_editions

\* An edition event was appended before the only EDITIONS transaction was seen.
C1_Witness ==
    /\ pc = "returned"
    /\ Len(fetched) = 2
    /\ VerbOf(fetched[1]).action = "REGISTER"
    /\ VerbOf(fetched[1]).edition_number = 1
    /\ VerbOf(fetched[2]).action = "EDITIONS"
    /\ VerbOf(fetched[2]).num_editions = 2
    /\ 1 \in DOMAIN result
    /\ result[1][1].number_editions = 2

\* No data-carrying output of the transaction decodes to a supported action.
NoSupported(tx) ==
    ~ \E i \in DOMAIN tx.vouts :
         /\ IsOpReturn(tx.vouts[i].hex)
         /\ from_verb(decode_op_return(tx.vouts[i].hex)).ok
         /\ from_verb(decode_op_return(tx.vouts[i].hex)).action \in supported_actions

Undecodable(tx) ==
    \E i \in DOMAIN tx.vouts :
         /\ IsOpReturn(tx.vouts[i].hex)
         /\ ~from_verb(decode_op_return(tx.vouts[i].hex)).ok

\* C2 as claimed: a candidate with no data-carrying output that decodes to a
\* supported action makes history() fail with UnsupportedTransactionError
\* referencing that transaction's id, and no tree is returned.
C2_Original ==
    \A i \in DOMAIN fetched :
        NoSupported(fetched[i]) =>
            /\ pc = "raised"
            /\ err.type = "UnsupportedTransactionError"
            /\ err.txid = fetched[i].txid
            /\ result = NoTree

\* C2 as amended: such a candidate makes history() fail and no tree is
\* returned; the failure is the plain Exception of check_script (the verb
\* interpreter's decode error when a payload of the transaction cannot be
\* decoded), it carries no transaction id, and nothing after the candidate is
\* processed.
C2_FailsNoTree ==
    \A i \in DOMAIN fetched :
        NoSupported(fetched[i]) =>
            /\ pc = "raised"
            /\ result = NoTree
            /\ i = Len(fetched)
            /\ err.txid = NoTxid
            /\ err.type \in {"Exception", "decode_error"}
            /\ ~Undecodable(fetched[i]) => err.type = "Exception"

\* The second candidate is unsupported; the first was already in the local tree.
C2_Witness ==
    /\ pc = "raised"
    /\ Len(fetched) = 2
    /\ NoSupported(fetched[2])
    /\ \E j \in DOMAIN fetched[2].vouts : IsOpReturn(fetched[2].vouts[j].hex)
    /\ err.type = "Exception"
    /\ Places(tree) # {}
    /\ result = NoTree

MultiSender(tx) == Cardinality({tx.vins[i].address : i \in DOMAIN tx.vins}) > 1

\* C3: for a transaction whose inputs carry more than one distinct sender
\* address _get_addresses fails with InvalidTransactionError; inside history(),
\* for a candidate that passed the Output Scanner, no event of the transaction
\* is in the tree and no tree is returned.
C3_MultiSenderRejected ==
    \A i \in DOMAIN fetched :
        MultiSender(fetched[i]) =>
            /\ get_addresses(fetched[i]).status = "InvalidTransactionError"
            /\ check_script(fetched[i].vouts).status = "ok" =>
                  /\ pc = "raised"
                  /\ err.type = "InvalidTransactionError"
                  /\ result = NoTree
                  /\ \A p \in Places(tree) : tree[p[1]][p[2]].txid # fetched[i].txid

C3_Witness ==
    /\ pc = "raised"
    /\ Len(fetched) = 2
    /\ MultiSender(fetched[2])
    /\ check_script(fetched[2].vouts).status = "ok"
    /\ err.type = "InvalidTransactionError"
    /\ Places(tree) # {}

\* C9: when history() returns, each candidate is exactly one event in exactly
\* one bucket, bucket 0 for EDITIONS and the verb's edition_number otherwise;
\* every event's edition_number field is the key of its bucket, and the tree
\* holds as many events as there are candidates.
C9_OneBucketPerCandidate ==
    pc = "returned" =>
        /\ \A i \in DOMAIN fetched :
              LET v == VerbOf(fetched[i])
                  key == IF v.action = "EDITIONS" THEN 0 ELSE v.edition_number
                  at == {p \in Places(result) :
                            result[p[1]][p[2]].txid = fetched[i].txid}
              IN /\ Cardinality(at) = 1
                 /\ \A p \in at : p[1] = key
        /\ \A p \in Places(result) : result[p[1]][p[2]].edition_number = p[1]
        /\ Cardinality(Places(result)) = Len(fetched)
        /\ Len(fetched) = feedLen

C9_Witness ==
    /\ pc = "returned"
    /\ Len(fetched) = 2
    /\ DOMAIN result = {0, 1}
    /\ result[0][1].action = "EDITIONS"
    /\ result[1][1].action # "EDITIONS"

\* C10 as claimed: for every transaction history() accepts, the output
\* _get_addresses drops (highest n) is the data-carrying output whose payload
\* check_script returned, and neither piece_address nor to_address is taken
\* from that output.
C10_Original ==
    pc \in {"loop", "returned"} =>
        \A i \in DOMAIN fetched :
            LET tx == fetched[i]
                data == tx.vouts[check_script(tx.vouts).pos]
                kept == kept_vouts(tx)
            IN /\ Last(sorted_vouts(tx.vouts)).n = data.n
               /\ kept[1].n # data.n
               /\ Last(kept).n # data.n

----------------------------------------------------------------------------
(* Properties of chain and strip_loan, checked under SpecChain *)

Count(s, x) == Cardinality({i \in DOMAIN s : s[i] = x})

NonDecreasing(c) ==
    \A i \in DOMAIN c : \A j \in DOMAIN c :
        i <= j => c[i].timestamp_utc <= c[j].timestamp_utc

\* C4: chain(tree, e) returns exactly the events of bucket e (same multiset)
\* in non-decreasing timestamp order, and the empty sequence, without error,
\* when e is not a key of the tree.
C4_ChainSortedBucket ==
    cpc = "chained" =>
        LET c == heap[cref]
            b == Bucket(heap, ctree, cedition)
        IN /\ NonDecreasing(c)
           /\ Len(c) = Len(b)
           /\ \A x \in Range(c) \cup Range(b) : Count(c, x) = Count(b, x)
           /\ cedition \notin DOMAIN ctree => c = <<>>
           /\ cerr = NoErr

\* The bucket was out of order and chain() reordered it.
C4_Witness ==
    /\ cpc = "chained"
    /\ cedition \in DOMAIN ctree
    /\ Len(heap[cref]) = 3
    /\ ~NonDecreasing(heap[ctree[cedition]])
    /\ heap[cref] # heap[ctree[cedition]]

HasNonLoan(c) == \E i \in DOMAIN c : c[i].action # "LOAN"

LastNonLoan(c) ==
    CHOOSE i \in DOMAIN c :
        /\ c[i].action # "LOAN"
        /\ \A j \in DOMAIN c : j > i => c[j].action = "LOAN"

\* C5: for a chain with at least one non-LOAN event, strip_loan returns the
\* prefix of the chain ending at its last non-LOAN event: the trailing run of
\* LOAN events is removed, other LOAN events are kept, order is preserved,
\* and nothing changes when the last action is not LOAN.
C5_StripsTrailingRun ==
    (cpc \in {"stripped", "stripped2", "raised"} /\ HasNonLoan(carg)) =>
        /\ cpc # "raised"
        /\ ret1 = SubSeq(carg, 1, LastNonLoan(carg))
        /\ Last(carg).action # "LOAN" => ret1 = carg

\* A LOAN before the last non-LOAN event is kept, the trailing LOAN is removed.
C5_Witness ==
    /\ cpc = "stripped"
    /\ Len(carg) = 3
    /\ carg[1].action = "LOAN"
    /\ carg[2].action = "TRANSFER"
    /\ carg[3].action = "LOAN"
    /\ ret1 = SubSeq(carg, 1, 2)

\* C6 as claimed: for every chain c, strip_loan applied to the result of
\* strip_loan(c) returns a chain equal to strip_loan(c).
C6_Original ==
    cpc \in {"stripped2", "raised"} => (cpc = "stripped2" /\ ret2 = ret1)

TreeContents == [k \in DOMAIN ctree |-> heap[ctree[k]]]

\* C7: computing strip_loan(chain(tree, e)) leaves the tree unchanged: every
\* bucket, bucket e included, holds the same events in the same order after
\* each of the calls.
C7_TreeUnchanged == [][TreeContents' = TreeContents]_vars

\* strip_loan removed events from the chain while bucket e kept them.
C7_Witness ==
    /\ cpc = "stripped"
    /\ cedition \in DOMAIN ctree
    /\ Len(ret1) < Len(heap[ctree[cedition]])
    /\ Last(heap[ctree[cedition]]).action = "LOAN"

\* C8 as claimed: for every chain, the empty chain and a chain of LOAN events
\* only included, strip_loan stops and returns a chain that is empty or whose
\* last event is not a LOAN.
C8_Original ==
    cpc \in {"stripped", "raised"} =>
        /\ cpc = "stripped"
        /\ (ret1 = <<>> \/ Last(ret1).action # "LOAN")

====
